---- MODULE Spec2Model ----
(***************************************************************************)
(* Model of the ABAP ADT MCP server: the CallTool request handler, the     *)
(* object and class tool handlers (REST variant and client-library        *)
(* variant), serializeResult, handleError and the per-request transport   *)
(* wiring of app.post('/mcp').                                             *)
(*                                                                         *)
(* JavaScript values are tagged records.  A string is a sequence of       *)
(* tokens (each token a chunk of characters), so that concatenation is    *)
(* \o and "contains" / "starts with" are statements about tokens.         *)
(***************************************************************************)
EXTENDS Integers, Sequences, FiniteSets, TLC

\* ------------------------------------------------------------------------
\* Bounds of the model
\* ------------------------------------------------------------------------
MaxList == 52      \* longest sequence handed to serializeResult
MaxConc == 2       \* concurrent POST /mcp requests in SpecConc
MaxXml == 3        \* tokens after the declaration of a generated XML document

\* ------------------------------------------------------------------------
\* JavaScript values
\* ------------------------------------------------------------------------
Undef == [k |-> "undefined"]
Null == [k |-> "null"]
Str(s) == [k |-> "string", s |-> s]
Num(n) == [k |-> "number", n |-> n]
BigInt(n) == [k |-> "bigint", b |-> n]
Bool(b) == [k |-> "boolean", t |-> b]
Map(f) == [k |-> "object", m |-> f]
Arr(s) == [k |-> "array", a |-> s]
\* an object that (directly) references itself
Cyclic == [k |-> "cyclic"]

EmptyFn == [x \in {} |-> Null]
EmptyMap == Map(EmptyFn)

\* Keys of the mappings of the model, in the order in which a mapping lists
\* them (JavaScript keeps insertion order; the model fixes one order).
KeyOrder ==
    << "name", "type", "description", "ObjectName", "ObjectType",
       "links", "etag", "annex", "changed_by", "created_by", "changed_at",
       "parent_uri", "items", "path", "status", "timestamp",
       "isError", "error", "code",
       "class:abapClass", "adtcore:object", "program:abapProgram",
       "table:abapTable", "_attributes", "adtcore:packageRef",
       "adtcore:name", "adtcore:type", "adtcore:description", "adtcore:uri",
       "uri", "version", "author", "date", "nodes", "content", "text",
       "query", "objectUrl", "package_name", "binding" >>

Keys(m) == SelectSeq(KeyOrder, LAMBDA key : key \in DOMAIN m)

\* truthiness, as used by !x, x || y and x ? a : b
Truthy(v) ==
    CASE v.k = "undefined" -> FALSE
      [] v.k = "null" -> FALSE
      [] v.k = "string" -> v.s # << >>
      [] v.k = "number" -> v.n # 0
      [] v.k = "bigint" -> v.b # 0
      [] v.k = "boolean" -> v.t
      [] OTHER -> TRUE

\* x || y
Or(x, y) == IF Truthy(x) THEN x ELSE y

\* v[key] for a value that is neither null nor undefined
Get(v, key) ==
    IF v.k = "object" /\ key \in DOMAIN v.m THEN v.m[key] ELSE Undef

\* v?.[key]
OptGet(v, key) ==
    IF v.k \in {"undefined", "null"} THEN Undef ELSE Get(v, key)

\* does reading a property of v throw a TypeError
ReadThrows(v) == v.k \in {"undefined", "null"}

RECURSIVE ToStr(_)
RECURSIVE JoinComma(_)
\* String(v) / `${v}`
ToStr(v) ==
    CASE v.k = "undefined" -> << "undefined" >>
      [] v.k = "null" -> << "null" >>
      [] v.k = "string" -> v.s
      [] v.k = "number" -> << ToString(v.n) >>
      [] v.k = "bigint" -> << ToString(v.b) >>
      [] v.k = "boolean" -> IF v.t THEN << "true" >> ELSE << "false" >>
      [] v.k = "array" -> JoinComma(v.a)
      [] OTHER -> << "[object Object]" >>

\* Array.prototype.join(','): null and undefined elements give ''
JoinComma(s) ==
    IF s = << >> THEN << >>
    ELSE (IF Head(s).k \in {"undefined", "null"} THEN << >> ELSE ToStr(Head(s)))
         \o (IF Len(s) = 1 THEN << >> ELSE << "," >> \o JoinComma(Tail(s)))

\* ------------------------------------------------------------------------
\* Errors
\* ------------------------------------------------------------------------
InvalidParams == -32602
InternalError == -32603
MethodNotFound == -32601



\* new McpError(code, message)
McpError(code, message) == [cls |-> "McpError", code |-> code, message |-> message]
\* an Error that is not an McpError (axios error, TypeError, ...)
PlainError(message) == [cls |-> "Error", code |-> 0, message |-> message]
\* a thrown value that is not an Error: error.message is undefined and
\* String(error) is its text
NonError(text) == [cls |-> "NonError", code |-> 0, message |-> text]

TypeErrorMsg == << "Cannot read properties of undefined" >>
CircularMsg == << "Converting circular structure to JSON" >>
\* the TypeError of item.name for an entry that is null
NullEntryMsg == << "Cannot read properties of null (reading 'name')" >>

\* `${error.message}` inside a handler's catch (error: any)
MessageOf(error) ==
    IF error.cls = "NonError" THEN << "undefined" >> ELSE error.message

\* ------------------------------------------------------------------------
\* PresentedText: {content: [{type: 'text', text}], isError?}
\* isError = FALSE stands for "isError absent".
\* ------------------------------------------------------------------------
Text(text) == [content |-> << [type |-> "text", text |-> text] >>, isError |-> FALSE]
ErrorText(text) == [content |-> << [type |-> "text", text |-> text] >>, isError |-> TRUE]

TextOf(presented) == presented.content[1].text

\* ------------------------------------------------------------------------
\* serializeResult
\* ------------------------------------------------------------------------
SliceLimit == 50

\* the block-list with one name misspelt
blackList_Typo ==
    {"links", "etag", "annex", "changed_by", "created_by", "changed_at", "parent_url"}

blackList ==
    {"links", "etag", "annex", "changed_by", "created_by", "changed_at", "parent_uri"}

Whitespace == {" ", "\n"}
\* tokens that start with the character '<'
OpenTokens == {"<", "<?xml", "<adt:", "<b"}

RECURSIVE TrimStart(_)
TrimStart(s) ==
    IF s # << >> /\ Head(s) \in Whitespace THEN TrimStart(Tail(s)) ELSE s

RECURSIVE TrimEnd(_)
TrimEnd(s) ==
    IF s # << >> /\ s[Len(s)] \in Whitespace
    THEN TrimEnd(SubSeq(s, 1, Len(s) - 1)) ELSE s

\* String.prototype.trim
Trim(s) == TrimEnd(TrimStart(s))

\* a tag taken to end one token after its '<'
SkipTag_OneToken(s) ==
    IF s = << >> THEN << >> ELSE Tail(s)

RECURSIVE SkipTag(_)
\* the rest of the text after a match of [^>]*>? that began before s
SkipTag(s) ==
    IF s = << >> THEN << >>
    ELSE IF Head(s) = ">" THEN Tail(s)
    ELSE SkipTag(Tail(s))

RECURSIVE StripTags(_)
\* text.replace(/<[^>]*>?/gm, '')
StripTags(s) ==
    IF s = << >> THEN << >>
    ELSE IF Head(s) \in OpenTokens THEN StripTags(SkipTag(Tail(s)))
    ELSE << Head(s) >> \o StripTags(Tail(s))

\* a test for markup that accepts any token beginning with '<'
LooksLikeXml_AnyTag(text) ==
    \E i \in 1..Len(text) : text[i] \in OpenTokens

\* text.startsWith('<?xml') || text.includes('<adt:')
LooksLikeXml(text) ==
    \/ text # << >> /\ Head(text) = "<?xml"
    \/ \E i \in 1..Len(text) : text[i] = "<adt:"

\* a replacer that also drops the first token of every string
Replacer_Clipping(key, value) ==
    IF key \in blackList THEN Undef
    ELSE IF value.k = "bigint" THEN Str(<< ToString(value.b) >>)
    ELSE IF value.k = "string" /\ value.s # << >> THEN Str(Tail(value.s))
    ELSE value

\* the replacer callback of JSON.stringify
Replacer(key, value) ==
    IF key \in blackList THEN Undef
    ELSE IF value.k = "bigint" THEN Str(<< ToString(value.b) >>)
    ELSE value

RECURSIVE StringifyThrows(_)
\* JSON.stringify(v, Replacer) throws on a circular structure it walks into
StringifyThrows(v) ==
    CASE v.k = "cyclic" -> TRUE
      [] v.k = "object" ->
            \E key \in DOMAIN v.m :
                /\ key \notin blackList
                /\ StringifyThrows(v.m[key])
      [] v.k = "array" -> \E i \in 1..Len(v.a) : StringifyThrows(v.a[i])
      [] OTHER -> FALSE

RECURSIVE JsonClone(_)
\* what JSON.parse reads back from JSON.stringify(., Replacer) for a value
\* the replacer has already returned
JsonClone(v) ==
    CASE v.k = "object" ->
            LET kept == {key \in DOMAIN v.m : Replacer(key, v.m[key]).k # "undefined"}
            IN  Map([key \in kept |-> JsonClone(Replacer(key, v.m[key]))])
      [] v.k = "array" ->
            Arr([i \in 1..Len(v.a) |->
                    LET r == Replacer(ToString(i - 1), v.a[i])
                    IN  IF r.k = "undefined" THEN Null ELSE JsonClone(r)])
      [] OTHER -> v

\* const clean = JSON.parse(JSON.stringify(result, replacer))
Clean(result) == JsonClone(Replacer("", result))

RECURSIVE Indent(_)
Indent(d) == IF d = 0 THEN << >> ELSE << "  " >> \o Indent(d - 1)

RECURSIVE Pretty(_, _)
RECURSIVE PrettyElems(_, _)
RECURSIVE PrettyProps(_, _, _)
\* JSON.stringify(v, null, 2) of a value read back by JSON.parse
Pretty(v, d) ==
    CASE v.k = "null" -> << "null" >>
      [] v.k = "boolean" -> IF v.t THEN << "true" >> ELSE << "false" >>
      [] v.k = "number" -> << ToString(v.n) >>
      [] v.k = "string" -> << "\"" >> \o v.s \o << "\"" >>
      [] v.k = "array" ->
            IF Len(v.a) = 0 THEN << "[]" >>
            ELSE << "[", "\n" >> \o PrettyElems(v.a, d + 1)
                 \o << "\n" >> \o Indent(d) \o << "]" >>
      [] v.k = "object" ->
            IF DOMAIN v.m = {} THEN << "{}" >>
            ELSE << "{", "\n" >> \o PrettyProps(v.m, Keys(v.m), d + 1)
                 \o << "\n" >> \o Indent(d) \o << "}" >>

PrettyElems(a, d) ==
    Indent(d) \o Pretty(Head(a), d)
    \o (IF Len(a) = 1 THEN << >> ELSE << ",", "\n" >> \o PrettyElems(Tail(a), d))

PrettyProps(m, keys, d) ==
    Indent(d) \o << "\"", Head(keys), "\"", ": " >> \o Pretty(m[Head(keys)], d)
    \o (IF Len(keys) = 1 THEN << >> ELSE << ",", "\n" >> \o PrettyProps(m, Tail(keys), d))

\* `- ${name} (${type}) ${desc}` of one entry that is not null
ItemLine(item) ==
    LET name == Or(Or(Get(item, "name"), Get(item, "ObjectName")), Str(<< >>))
        type == Or(Or(Get(item, "type"), Get(item, "ObjectType")), Str(<< >>))
        desc == Or(Get(item, "description"), Str(<< >>))
    IN  << "- " >> \o ToStr(name) \o << " (" >> \o ToStr(type) \o << ") " >> \o ToStr(desc)

RECURSIVE JoinLines(_)
\* items.map(ItemLine).join('\n')
JoinLines(items) ==
    IF items = << >> THEN << >>
    ELSE ItemLine(Head(items))
         \o (IF Len(items) = 1 THEN << >> ELSE << "\n" >> \o JoinLines(Tail(items)))

\* a slice that keeps one entry too many
Slice_OffByOne(a) == SubSeq(a, 1, IF Len(a) < SliceLimit + 1 THEN Len(a) ELSE SliceLimit + 1)

\* clean.slice(0, 50)
Slice(a) == SubSeq(a, 1, IF Len(a) < SliceLimit THEN Len(a) ELSE SliceLimit)

\* the list branch without the marker of the empty sequence
RenderList_NoMarker(a) ==
    IF \E i \in 1..Len(Slice(a)) : ReadThrows(Slice(a)[i])
    THEN ErrorText(<< "Error: " >> \o NullEntryMsg)
    ELSE Text(JoinLines(Slice(a))
              \o (IF Len(a) > SliceLimit
                  THEN << "\n", "\n", "...and ", ToString(Len(a) - SliceLimit),
                          " more objects." >>
                  ELSE << >>))

\* the list branch whose failure is reported without the error flag
RenderList_NoErrorFlag(a) ==
    IF Len(a) = 0 THEN Text(<< "Empty list" >>)
    ELSE IF \E i \in 1..Len(Slice(a)) : ReadThrows(Slice(a)[i])
    THEN Text(<< "Error: " >> \o NullEntryMsg)
    ELSE Text(JoinLines(Slice(a))
              \o (IF Len(a) > SliceLimit
                  THEN << "\n", "\n", "...and ", ToString(Len(a) - SliceLimit),
                          " more objects." >>
                  ELSE << >>))

\* the list branch of serializeResult; an entry of the cloned sequence is
\* never undefined, the clone made it null
RenderList(a) ==
    IF Len(a) = 0 THEN Text(<< "Empty list" >>)
    ELSE IF \E i \in 1..Len(Slice(a)) : ReadThrows(Slice(a)[i])
    THEN ErrorText(<< "Error: " >> \o NullEntryMsg)
    ELSE Text(JoinLines(Slice(a))
              \o (IF Len(a) > SliceLimit
                  THEN << "\n", "\n", "...and ", ToString(Len(a) - SliceLimit),
                          " more objects." >>
                  ELSE << >>))

serializeResult(result) ==
    IF ~Truthy(result) THEN Text(<< "No data returned from SAP" >>)
    ELSE IF result.k = "string"
    THEN LET text == Trim(result.s)
         IN  Text(IF LooksLikeXml(text) THEN Trim(StripTags(text)) ELSE text)
    ELSE IF StringifyThrows(result)
    THEN ErrorText(<< "Error: " >> \o CircularMsg)
    ELSE LET clean == Clean(result)
         IN  IF clean.k = "array" THEN RenderList(clean.a)
             ELSE Text(Pretty(clean, 0))

\* ------------------------------------------------------------------------
\* handleError
\* ------------------------------------------------------------------------
\* JSON.stringify({error, code})
ErrorJson(message, code) ==
    << "{", "\"error\":", "\"" >> \o message
    \o << "\"", ",", "\"code\":", ToString(code), "}" >>

\* handleError echoing the message of any error
handleError_Leaky(error) ==
    ErrorText(ErrorJson(error.message,
                        IF error.cls = "McpError" THEN error.code ELSE InternalError))

handleError(error) ==
    LET asError == IF error.cls = "NonError" THEN PlainError(error.message) ELSE error
    IN  IF asError.cls = "McpError"
        THEN ErrorText(ErrorJson(asError.message, asError.code))
        ELSE ErrorText(ErrorJson(<< "Internal server error" >>, InternalError))

\* ------------------------------------------------------------------------
\* Tools and arguments
\* ------------------------------------------------------------------------
ObjectTools ==
    {"getObjects", "getObjectStructure", "getObjectSourceCode",
     "getObjectFullPath", "getObjectVersionHistory", "getPackageObjects"}
ClassTools == {"getClassComponents", "getServiceBindingDetails"}
\* one tool of each handler whose source is not part of the model
OtherTools == {"getUsageReferences", "getAllAnnotations", "getDdicElementDetails"}
ToolNames == ObjectTools \cup ClassTools \cup OtherTools \cup {"healthcheck", "noSuchTool"}

\* the handler variants: "rest" is ObjectHandler / ClassHandler (makeAdtRequest),
\* "client" is ObjectHandler__ / ClassHandler__ (ADT client library)
Variants == {"rest", "client"}

\* the argument a tool's inputSchema lists under `required`
RequiredArg(variant, name) ==
    CASE name = "getObjects" -> "query"
      [] name = "getPackageObjects" -> "package_name"
      [] name = "getServiceBindingDetails" /\ variant = "client" -> "binding"
      [] OTHER -> "objectUrl"

\* the message of the InvalidParams error of a validating handler
RequiredMessage(name) ==
    CASE name = "getObjects" -> << "Search query is required" >>
      [] name = "getPackageObjects" -> << "Package name is required" >>
      [] OTHER -> << "Object URL is required" >>

\* the message prefix of the InternalError a client-library handler throws
FailurePrefix(name) ==
    CASE name = "getObjects" -> << "Search failed: " >>
      [] name = "getObjectStructure" -> << "Failed to get structure: " >>
      [] name = "getObjectSourceCode" -> << "Failed to get source: " >>
      [] name = "getObjectFullPath" -> << "Failed to find path: " >>
      [] name = "getObjectVersionHistory" -> << "Failed to get versions: " >>
      [] name = "getPackageObjects" -> << "Failed to get package objects: " >>
      [] name = "getClassComponents" -> << "Class components error: " >>
      [] OTHER -> << "Binding details error: " >>

\* the library method a client-library handler awaits after login
LibraryCall(name) ==
    CASE name = "getObjects" -> "searchObject"
      [] name = "getObjectStructure" -> "objectStructure"
      [] name = "getObjectSourceCode" -> "getObjectSource"
      [] name = "getObjectFullPath" -> "findObjectPath"
      [] name = "getObjectVersionHistory" -> "revisions"
      [] name = "getPackageObjects" -> "nodeContents"
      [] name = "getClassComponents" -> "classComponents"
      [] OTHER -> "bindingDetails"

\* request.params.arguments: missing, without the required argument, with
\* an empty one, with a proper one
ArgumentsOf(variant, name) ==
    LET key == RequiredArg(variant, name)
    IN  { Undef, EmptyMap,
          Map([x \in {key} |-> Str(<< >>)]),
          Map([x \in {key} |-> Str(<< "Z", ".*" >>)]) }

\* a request that names its required argument
ProperArgumentsOf(variant, name) ==
    {Map([x \in {RequiredArg(variant, name)} |-> Str(<< "/sap/bc/adt/programs/z" >>)])}

\* ------------------------------------------------------------------------
\* What a handler hands back to the request handler
\* ------------------------------------------------------------------------
NoError == [cls |-> "none", code |-> 0, message |-> << >>]
Returned(v) == [ok |-> TRUE, v |-> v, e |-> NoError]
Threw(e) == [ok |-> FALSE, v |-> Undef, e |-> e]
TypeError == PlainError(TypeErrorMsg)

\* return_error(error) of utils: the error as a result value
return_error(error) ==
    Map([key \in {"isError", "error", "code"} |->
            CASE key = "isError" -> Bool(TRUE)
              [] key = "error" -> Str(MessageOf(error))
              [] OTHER -> Num(IF error.cls = "McpError" THEN error.code
                              ELSE InternalError)])

\* !args?.query, !args?.objectUrl, !args?.package_name
Missing(arguments, key) == ~Truthy(OptGet(arguments, key))

\* ------------------------------------------------------------------------
\* ObjectHandler.handleGetObjectPath (REST variant)
\* ------------------------------------------------------------------------
RootCandidates ==
    << "class:abapClass", "adtcore:object", "program:abapProgram", "table:abapTable" >>

\* the candidates tried with the first two in the other order
ResolveRoot_Reordered(data) ==
    Or(Or(Or(Get(data, RootCandidates[2]), Get(data, RootCandidates[1])),
          Get(data, RootCandidates[3])),
       Get(data, RootCandidates[4]))

\* data[c1] || data[c2] || data[c3] || data[c4]
ResolveRoot(data) ==
    Or(Or(Or(Get(data, RootCandidates[1]), Get(data, RootCandidates[2])),
          Get(data, RootCandidates[3])),
       Get(data, RootCandidates[4]))

\* root?._attributes || {}
RootAttrs(root) == Or(OptGet(root, "_attributes"), EmptyMap)

\* the package name read without a fallback
PackageName_NoFallback(root) ==
    OptGet(OptGet(OptGet(root, "adtcore:packageRef"), "_attributes"), "adtcore:name")

\* root?.['adtcore:packageRef']?._attributes?.['adtcore:name'] || 'TMP'
PackageName(root) ==
    Or(OptGet(OptGet(OptGet(root, "adtcore:packageRef"), "_attributes"), "adtcore:name"),
       Str(<< "TMP" >>))

PathText(data) ==
    ToStr(PackageName(ResolveRoot(data))) \o << " > " >>
    \o ToStr(Get(RootAttrs(ResolveRoot(data)), "adtcore:name"))

\* the part of handleGetObjectPath after the awaited request:
\* const { data } = response, then the reads of data
PathOf(data) ==
    IF ReadThrows(data) THEN Threw(TypeError)
    ELSE Returned(Map([key \in {"path"} |-> Str(PathText(data))]))

\* ------------------------------------------------------------------------
\* The client-library handlers (ObjectHandler__, ClassHandler__)
\* ------------------------------------------------------------------------
RECURSIVE JoinWith(_, _)
\* parts.join(sep), parts a sequence of strings
JoinWith(parts, sep) ==
    IF parts = << >> THEN << >>
    ELSE Head(parts) \o (IF Len(parts) = 1 THEN << >> ELSE sep \o JoinWith(Tail(parts), sep))

\* x.length === 0
LengthZero(v) ==
    \/ v.k = "array" /\ Len(v.a) = 0
    \/ v.k = "string" /\ v.s = << >>

\* the hit line that reads the plain key before the namespaced one
HitLine_PlainFirst(item) ==
    LET name == Or(Get(item, "name"), Get(item, "adtcore:name"))
        type == Or(Get(item, "type"), Get(item, "adtcore:type"))
        desc == Or(Get(item, "adtcore:description"), Str(<< >>))
        uri == Or(Get(item, "uri"), Get(item, "adtcore:uri"))
    IN  << "- " >> \o ToStr(name) \o << " (" >> \o ToStr(type) \o << ") " >>
        \o ToStr(desc) \o << "\n", "  URL: " >> \o ToStr(uri)

HitLine(item) ==
    LET name == Or(Get(item, "adtcore:name"), Get(item, "name"))
        type == Or(Get(item, "adtcore:type"), Get(item, "type"))
        desc == Or(Get(item, "adtcore:description"), Str(<< >>))
        uri == Or(Get(item, "adtcore:uri"), Get(item, "uri"))
    IN  << "- " >> \o ToStr(name) \o << " (" >> \o ToStr(type) \o << ") " >>
        \o ToStr(desc) \o << "\n", "  URL: " >> \o ToStr(uri)

PathSegment(p) ==
    ToStr(Get(p, "adtcore:name")) \o << " (" >> \o ToStr(Get(p, "adtcore:type")) \o << ")" >>

RevisionLine(rev) ==
    << "Version: " >> \o ToStr(Get(rev, "version"))
    \o << " | Author: " >> \o ToStr(Get(rev, "author"))
    \o << " | Date: " >> \o ToStr(Get(rev, "date"))
    \o << "\n", "  URL: " >> \o ToStr(Get(rev, "uri"))

NodeLine(node) ==
    LET name == Or(Get(node, "name"), Str(<< "Unknown" >>))
        type == Or(Get(node, "type"), Str(<< "Unknown type" >>))
        desc == Or(Get(node, "description"), Str(<< >>))
    IN  << "- " >> \o ToStr(name) \o << " (" >> \o ToStr(type) \o << ") " >> \o ToStr(desc)

\* the callback of list.map in the handler of tool name
LineOf(name, item) ==
    CASE name = "getObjects" -> HitLine(item)
      [] name = "getObjectFullPath" -> PathSegment(item)
      [] name = "getObjectVersionHistory" -> RevisionLine(item)
      [] OTHER -> NodeLine(item)

\* list.map(line).join(sep) in the handler of tool name; list.map is not a
\* function unless list is an array, and line reads properties of each entry
MapJoin(name, list, sep) ==
    IF list.k # "array" THEN Threw(TypeError)
    ELSE IF \E i \in 1..Len(list.a) : ReadThrows(list.a[i]) THEN Threw(TypeError)
    ELSE Returned(Str(JoinWith([i \in 1..Len(list.a) |-> LineOf(name, list.a[i])], sep)))

\* ObjectHandler__.handleGetObjects after searchObject
FormatHits(results) ==
    IF ~Truthy(results) \/ LengthZero(results)
    THEN Returned(Str(<< "No objects found." >>))
    ELSE MapJoin("getObjects", results, << "\n" >>)

\* ObjectHandler__.handleGetObjectPath after findObjectPath
FormatPath(path) ==
    IF ~Truthy(path) \/ LengthZero(path)
    THEN Returned(Str(<< "Path not found" >>))
    ELSE MapJoin("getObjectFullPath", path, << " > " >>)

\* ObjectHandler__.handleObjectVersionHistory after revisions
FormatRevisions(revisions) ==
    IF ~Truthy(revisions) \/ LengthZero(revisions)
    THEN Returned(Str(<< "No version history found." >>))
    ELSE MapJoin("getObjectVersionHistory", revisions, << "\n", "---", "\n" >>)

\* ObjectHandler__.handlePackageObjects after nodeContents
FormatNodes(nodeContents) ==
    IF ~Truthy(nodeContents) THEN Returned(Str(<< "Package is empty." >>))
    ELSE IF ReadThrows(Get(nodeContents, "nodes")) THEN Threw(TypeError)
    ELSE IF LengthZero(Get(nodeContents, "nodes"))
    THEN Returned(Str(<< "Package is empty." >>))
    ELSE MapJoin("getPackageObjects", Get(nodeContents, "nodes"), << "\n" >>)

RECURSIVE PlainStringifyThrows(_)
\* JSON.stringify(v, null, 2) throws on a circular structure and on a bigint
PlainStringifyThrows(v) ==
    CASE v.k \in {"cyclic", "bigint"} -> TRUE
      [] v.k = "object" -> \E key \in DOMAIN v.m : PlainStringifyThrows(v.m[key])
      [] v.k = "array" -> \E i \in 1..Len(v.a) : PlainStringifyThrows(v.a[i])
      [] OTHER -> FALSE

\* transformClassStructure of utils: keeps the structure or fails on it
transformClassStructure(result) == {Returned(result), Threw(TypeError)}

\* ClassHandler__.handleClassComponents after transformClassStructure
FormatComponents(transformed) ==
    IF ~transformed.ok THEN transformed
    ELSE IF PlainStringifyThrows(transformed.v) THEN Threw(PlainError(CircularMsg))
    ELSE Returned(Map([key \in {"content"} |->
            Arr(<< Map([f \in {"type", "text"} |->
                        IF f = "type" THEN Str(<< "text" >>)
                        ELSE IF transformed.v.k = "undefined" THEN Undef
                        ELSE Str(Pretty(transformed.v, 0))]) >>)]))

\* the code of a client-library handler between the awaited login and the
\* awaited library call: does reading the arguments throw
ClientArgsThrow(name, arguments) ==
    \/ ReadThrows(arguments)
    \/ /\ name \in {"getObjects", "getObjectSourceCode"}
       /\ Get(arguments, RequiredArg("client", name)).k # "string"

\* the code of a client-library handler after the library call returned
\* value: trackRequest(startTime, true), then the formatting
ClientFormat(name, value, transformed) ==
    CASE name = "getObjects" -> FormatHits(value)
      [] name = "getObjectFullPath" -> FormatPath(value)
      [] name = "getObjectVersionHistory" -> FormatRevisions(value)
      [] name = "getPackageObjects" -> FormatNodes(value)
      [] name = "getClassComponents" -> FormatComponents(transformed)
      [] OTHER -> Returned(value)

\* catch (error: any) of a client-library handler:
\* trackRequest(startTime, false); throw new McpError(InternalError, ...)
ClientCatch(name, h, track) ==
    IF h.ok THEN [h |-> h, track |-> track]
    ELSE [h |-> Threw(McpError(InternalError, FailurePrefix(name) \o MessageOf(h.e))),
          track |-> track \o << FALSE >>]

\* ------------------------------------------------------------------------
\* The values the external collaborators are taken to answer with
\* ------------------------------------------------------------------------
Leaves == {Str(<< "A" >>), BigInt(9), Null}
GenKeys == {"name", "links", "parent_uri"}

Inner == {Map(f) : f \in UNION {[S -> Leaves] : S \in SUBSET GenKeys}}

Nested ==
    {Map([x \in {key} |-> inner]) : key \in {"items", "etag"}, inner \in Inner}
    \cup {Arr(<< inner >>) : inner \in Inner}
    \cup {Map([x \in {"items"} |-> Arr(<< inner, leaf >>)]) : inner \in Inner, leaf \in Leaves}

LongItem(j) ==
    IF j % 2 = 1
    THEN Map([key \in {"name", "type"} |->
                IF key = "name" THEN Str(<< "N", ToString(j) >>) ELSE Str(<< "CLAS/OC" >>)])
    ELSE Map([key \in {"ObjectName", "ObjectType", "description", "links"} |->
                CASE key = "ObjectName" -> Str(<< "O", ToString(j) >>)
                  [] key = "ObjectType" -> Str(<< "PROG/P" >>)
                  [] key = "description" -> Str(<< "text" >>)
                  [] OTHER -> Str(<< "/sap/bc/adt" >>)])

\* sequences of 0..MaxList entries, without a null entry (hole = 0) or with one
LongLists ==
    {Arr([j \in 1..n |-> IF j = hole THEN Null ELSE LongItem(j)]) :
        n \in 0..MaxList, hole \in {0, 1, SliceLimit, SliceLimit + 1}}

RootName(key) ==
    CASE key = "class:abapClass" -> "ZCL"
      [] key = "adtcore:object" -> "ZOBJ"
      [] key = "program:abapProgram" -> "ZPROG"
      [] OTHER -> "ZTAB"

NameAttrs(name) == Map([x \in {"adtcore:name"} |-> Str(<< name >>)])

\* what a response holds under one root candidate: nothing ("absent"), null,
\* an element without package reference, an element with one
RootShapes == {"absent", "null", "bare", "packaged"}

RootValue(key, shape) ==
    CASE shape = "null" -> Null
      [] shape = "bare" -> Map([x \in {"_attributes"} |-> NameAttrs(RootName(key))])
      [] OTHER ->
            Map([x \in {"_attributes", "adtcore:packageRef"} |->
                    IF x = "_attributes" THEN NameAttrs(RootName(key))
                    ELSE Map([y \in {"_attributes"} |-> NameAttrs("PKG_" \o RootName(key))])])

CandidateKeys == {RootCandidates[i] : i \in 1..Len(RootCandidates)}

ObjectResponses ==
    {Map([key \in {c \in CandidateKeys : shape[c] # "absent"} |-> RootValue(key, shape[key])]) :
        shape \in [CandidateKeys -> RootShapes]}
    \cup { Map([x \in {"table:abapTable"} |-> EmptyMap]),
           Map([x \in {"table:abapTable"} |->
                Map([y \in {"_attributes", "adtcore:packageRef"} |->
                        IF y = "_attributes" THEN NameAttrs("ZTAB")
                        ELSE Map([z \in {"_attributes"} |->
                                    Map([w \in {"adtcore:name"} |-> Str(<< >>)])])])]) }

HitLists ==
    { Arr(<< Map([key \in {"adtcore:name", "adtcore:type", "adtcore:uri"} |->
                    CASE key = "adtcore:name" -> Str(<< "ZCL_FOO" >>)
                      [] key = "adtcore:type" -> Str(<< "CLAS/OC" >>)
                      [] OTHER -> Str(<< "/sap/bc/adt/oo/classes/zcl_foo" >>)]),
              Map([key \in {"name", "type", "uri", "adtcore:name"} |->
                    CASE key = "name" -> Str(<< "plain" >>)
                      [] key = "type" -> Str(<< "PROG/P" >>)
                      [] key = "uri" -> Str(<< "/sap/bc/adt/programs/z" >>)
                      [] OTHER -> Str(<< "ZNAMESPACED" >>)]) >>),
      Arr(<< Map([key \in {"name"} |-> Str(<< "ZONLY" >>)]) >>),
      Arr(<< Map([key \in {"adtcore:name", "name", "type", "uri"} |->
                    CASE key = "adtcore:name" -> Str(<< >>)
                      [] key = "name" -> Str(<< "ZPLAIN" >>)
                      [] key = "type" -> Str(<< "TABL/DT" >>)
                      [] OTHER -> Str(<< "/sap/bc/adt/ddic/tables/zplain" >>)]) >>),
      Arr(<< Map([key \in {"version", "author", "date", "uri"} |->
                    CASE key = "version" -> Str(<< "1" >>)
                      [] key = "author" -> Str(<< "DEV" >>)
                      [] key = "date" -> Str(<< "2024" >>)
                      [] OTHER -> Str(<< "/sap/bc/adt/rev/1" >>)]) >>),
      Map([key \in {"nodes"} |-> Arr(<< >>)]),
      Map([key \in {"nodes"} |-> Arr(<< LongItem(1), EmptyMap >>)]),
      Map([key \in {"nodes"} |-> Arr(<< Null >>)]) }

Scalars ==
    { Undef, Null, Str(<< >>), Str(<< "REPORT z." >>), Str(<< " ", "REPORT z.", "\n" >>),
      Str(<< " ", "<?xml", " version=1", ">", "<adt:", "x", ">", "text", "<", "tail" >>),
      Str(<< "<b", ">", "bold" >>),
      Str(<< "see", "<adt:", "link", ">", "here", "\n" >>),
      Num(0), Num(7), Bool(FALSE), Bool(TRUE), BigInt(0), BigInt(9) }

\* XML documents: a declaration followed by up to MaxXml tokens
XmlStrings ==
    {Str(<< "<?xml" >> \o t) :
        t \in UNION {[1..n -> {"<", ">", "t"}] : n \in 0..MaxXml}}

Circular ==
    { Cyclic, Arr(<< Cyclic >>),
      Map([x \in {"links"} |-> Cyclic]), Map([x \in {"name"} |-> Cyclic]) }

AllValues ==
    Scalars \cup XmlStrings \cup Circular \cup Inner \cup Nested \cup LongLists
    \cup ObjectResponses \cup HitLists

\* what a failed login, request or library call throws
Failures ==
    { PlainError(<< "Request failed with status code 500" >>),
      PlainError(<< "timeout of 30000ms exceeded" >>),
      McpError(InternalError, << "ADT request failed" >>),
      NonError(<< "socket hang up" >>) }

\* ------------------------------------------------------------------------
\* State
\* ------------------------------------------------------------------------
VARIABLES
    variant,          \* the handler variant the server is built with
    sdkCaptures,      \* does the SDK answer on the transport the request came in on
    pc,               \* per request: idle, login, fetch, respond, done, closed
    name,             \* per request: request.params.name
    arguments,        \* per request: request.params.arguments
    calls,            \* per request: the external calls made so far
    tracked,          \* per request: the trackRequest(startTime, ok) calls
    fetched,          \* per request: how the awaited request / library call ended
    handed,           \* per request: what the handler handed to the request handler
    returned,         \* per request: the results the request handler returned
    escaped,          \* per request: what the request handler let propagate
    serverTransport,  \* the transport the shared server is connected to (0: none)
    sentOn            \* per request: the transport its result was sent on (0: none)

vars ==
    << variant, sdkCaptures, pc, name, arguments, calls, tracked, fetched,
       handed, returned, escaped, serverTransport, sentOn >>

NoFetch == [kind |-> "none", v |-> Undef, e |-> NoError]
FetchValue(v) == [kind |-> "value", v |-> v, e |-> NoError]
FetchFailure(e) == [kind |-> "failure", v |-> Undef, e |-> e]
NotHanded == [ok |-> FALSE, v |-> Undef, e |-> NoError]

InitWith(requests, builds) ==
    /\ variant \in Variants
    /\ sdkCaptures \in builds
    /\ pc = [i \in requests |-> "idle"]
    /\ name = [i \in requests |-> "healthcheck"]
    /\ arguments = [i \in requests |-> Undef]
    /\ calls = [i \in requests |-> << >>]
    /\ tracked = [i \in requests |-> << >>]
    /\ fetched = [i \in requests |-> NoFetch]
    /\ handed = [i \in requests |-> NotHanded]
    /\ returned = [i \in requests |-> << >>]
    /\ escaped = [i \in requests |-> << >>]
    /\ serverTransport = 0
    /\ sentOn = [i \in requests |-> 0]

\* one request at a time: the two SDK behaviours coincide
Init == InitWith({1}, {TRUE})

Requests == DOMAIN pc

\* ------------------------------------------------------------------------
\* The CallTool request handler
\* ------------------------------------------------------------------------
\* the request handler without its catch: a thrown error propagates
CallTool_NoCatch(h) ==
    IF h.ok THEN [returned |-> << serializeResult(h.v) >>, escaped |-> << >>]
    ELSE [returned |-> << >>, escaped |-> << h.e >>]

\* try { ...; return this.serializeResult(result) } catch (error) { return this.handleError(error) }
CallTool(h) ==
    IF h.ok THEN [returned |-> << serializeResult(h.v) >>, escaped |-> << >>]
    ELSE [returned |-> << handleError(h.e) >>, escaped |-> << >>]

\* the handler finished with h: the request handler produces its result
Finish(i, h) ==
    /\ handed' = [handed EXCEPT ![i] = h]
    /\ returned' = [returned EXCEPT ![i] = CallTool(h).returned]
    /\ escaped' = [escaped EXCEPT ![i] = CallTool(h).escaped]
    /\ pc' = [pc EXCEPT ![i] = "respond"]

\* the handler suspended at an awaited call
Suspend(i, at, call) ==
    /\ pc' = [pc EXCEPT ![i] = at]
    /\ calls' = [calls EXCEPT ![i] = @ \o << call >>]
    /\ UNCHANGED << handed, returned, escaped >>

\* the handlers that check their required argument before anything else
Validating(v, n) ==
    /\ v = "rest"
    /\ n \in (ObjectTools \ {"getObjectFullPath"}) \cup ClassTools

\* app.post('/mcp'): a new transport is connected to the shared server and
\* the request is dispatched; the handler runs up to its first awaited call
Post(i, tools, proper) ==
    /\ pc[i] = "idle"
    /\ serverTransport' = i
    /\ \E n \in tools :
       \E a \in (IF proper THEN ProperArgumentsOf(variant, n) ELSE ArgumentsOf(variant, n)) :
        /\ name' = [name EXCEPT ![i] = n]
        /\ arguments' = [arguments EXCEPT ![i] = a]
        /\ CASE n = "healthcheck" ->
                  /\ Finish(i, Returned(Map([key \in {"status", "timestamp"} |->
                            IF key = "status" THEN Str(<< "healthy" >>)
                            ELSE Str(<< "2026-01-01T00:00:00.000Z" >>)])))
                  /\ UNCHANGED calls
             [] n \in OtherTools -> Suspend(i, "fetch", "handle")
             [] n \notin ObjectTools \cup ClassTools \cup OtherTools \cup {"healthcheck"} ->
                  /\ Finish(i, Threw(McpError(MethodNotFound, << "Unknown tool: ", n >>)))
                  /\ UNCHANGED calls
             [] Validating(variant, n) ->
                  IF Missing(a, RequiredArg(variant, n))
                  THEN /\ Finish(i, Returned(return_error(
                                McpError(InvalidParams, RequiredMessage(n)))))
                       /\ UNCHANGED calls
                  ELSE Suspend(i, "fetch", "makeAdtRequest")
             [] variant = "rest" /\ n = "getObjectFullPath" ->
                  IF ReadThrows(a)
                  THEN Finish(i, Threw(TypeError)) /\ UNCHANGED calls
                  ELSE Suspend(i, "fetch", "makeAdtRequest")
             [] OTHER -> Suspend(i, "login", "login")
    /\ UNCHANGED << variant, sdkCaptures, tracked, fetched, sentOn >>

\* await this.adtclient.login() of a client-library handler settles; on
\* success the handler runs up to the awaited library call
LoginDone(i, failures) ==
    /\ pc[i] = "login"
    /\ \/ \E e \in failures :
            LET c == ClientCatch(name[i], Threw(e), tracked[i])
            IN  /\ Finish(i, c.h)
                /\ tracked' = [tracked EXCEPT ![i] = c.track]
                /\ fetched' = [fetched EXCEPT ![i] = FetchFailure(e)]
                /\ UNCHANGED calls
       \/ IF ClientArgsThrow(name[i], arguments[i])
          THEN LET c == ClientCatch(name[i], Threw(TypeError), tracked[i])
               IN  /\ Finish(i, c.h)
                   /\ tracked' = [tracked EXCEPT ![i] = c.track]
                   /\ UNCHANGED << calls, fetched >>
          ELSE /\ Suspend(i, "fetch", LibraryCall(name[i]))
               /\ UNCHANGED << tracked, fetched >>
    /\ UNCHANGED << variant, sdkCaptures, name, arguments, serverTransport, sentOn >>

\* the awaited request (makeAdtRequest, the library call, an unmodelled
\* handler) settles and the handler runs to its end
FetchDone(i, values, failures) ==
    /\ pc[i] = "fetch"
    /\ \/ \E e \in failures :
            /\ fetched' = [fetched EXCEPT ![i] = FetchFailure(e)]
            /\ CASE name[i] \in OtherTools ->
                      Finish(i, Threw(e)) /\ UNCHANGED tracked
                 [] Validating(variant, name[i]) ->
                      Finish(i, Returned(return_error(e))) /\ UNCHANGED tracked
                 [] variant = "rest" ->
                      Finish(i, Threw(e)) /\ UNCHANGED tracked
                 [] OTHER ->
                      LET c == ClientCatch(name[i], Threw(e), tracked[i])
                      IN  Finish(i, c.h) /\ tracked' = [tracked EXCEPT ![i] = c.track]
       \/ \E v \in values :
            /\ fetched' = [fetched EXCEPT ![i] = FetchValue(v)]
            /\ CASE name[i] \in OtherTools ->
                      Finish(i, Returned(v)) /\ UNCHANGED tracked
                 [] Validating(variant, name[i]) ->
                      \* return_response(response, transformer): v is its result
                      Finish(i, Returned(v)) /\ UNCHANGED tracked
                 [] variant = "rest" ->
                      Finish(i, PathOf(v)) /\ UNCHANGED tracked
                 [] OTHER ->
                      \E t \in (IF name[i] = "getClassComponents"
                                THEN transformClassStructure(v) ELSE {Returned(v)}) :
                        LET c == ClientCatch(name[i], ClientFormat(name[i], v, t),
                                             tracked[i] \o << TRUE >>)
                        IN  Finish(i, c.h) /\ tracked' = [tracked EXCEPT ![i] = c.track]
    /\ UNCHANGED << variant, sdkCaptures, name, arguments, calls, serverTransport, sentOn >>

\* the SDK sends the request handler's result: on the transport the request
\* came in on, or on the transport the server is connected to now
Send(i) ==
    /\ pc[i] = "respond"
    /\ sentOn' = [sentOn EXCEPT ![i] = IF sdkCaptures THEN i ELSE serverTransport]
    /\ pc' = [pc EXCEPT ![i] = "done"]
    /\ UNCHANGED << variant, sdkCaptures, name, arguments, calls, tracked, fetched,
                    handed, returned, escaped, serverTransport >>

\* res.on('close', () => transport.close()): closing a transport that was
\* connected to the server leaves the server without transport
Close(i) ==
    /\ pc[i] = "done"
    /\ pc' = [pc EXCEPT ![i] = "closed"]
    /\ serverTransport' = 0
    /\ UNCHANGED << variant, sdkCaptures, name, arguments, calls, tracked, fetched,
                    handed, returned, escaped, sentOn >>

Next ==
    \/ \E i \in Requests : Post(i, ToolNames, FALSE)
    \/ \E i \in Requests : LoginDone(i, Failures)
    \/ \E i \in Requests : FetchDone(i, AllValues, Failures)
    \/ \E i \in Requests : Send(i)
    \/ \E i \in Requests : Close(i)

Spec == Init /\ [][Next]_vars

\* ------------------------------------------------------------------------
\* Concurrent requests against the one shared server
\* ------------------------------------------------------------------------
ConcTools == {"getObjectFullPath"}
ConcValues == {Map([x \in {"table:abapTable"} |-> EmptyMap])}
ConcFailures == {PlainError(<< "timeout of 30000ms exceeded" >>)}

InitConc == InitWith(1..MaxConc, BOOLEAN)

NextConc ==
    \/ \E i \in Requests : Post(i, ConcTools, TRUE)
    \/ \E i \in Requests : LoginDone(i, ConcFailures)
    \/ \E i \in Requests : FetchDone(i, ConcValues, ConcFailures)
    \/ \E i \in Requests : Send(i)
    \/ \E i \in Requests : Close(i)

SpecConc == InitConc /\ [][NextConc]_vars

\* ------------------------------------------------------------------------
\* Properties
\* ------------------------------------------------------------------------
\* the request handler of request i has returned
Finished(i) == pc[i] \in {"respond", "done", "closed"}

\* r has the shape {content: [{type: 'text', text}], isError?}
IsPresentedText(r) ==
    /\ DOMAIN r = {"content", "isError"}
    /\ r.isError \in BOOLEAN
    /\ Len(r.content) = 1
    /\ DOMAIN r.content[1] = {"type", "text"}
    /\ r.content[1].type = "text"
    /\ \A j \in 1..Len(r.content[1].text) : r.content[1].text[j] \in STRING

\* s contains the tokens of part, in a row
Contains(s, part) ==
    \E j \in 0..(Len(s) - Len(part)) : SubSeq(s, j + 1, j + Len(part)) = part

\* the text names the error code: "code":<code> in compact JSON,
\* "code": <code> in pretty-printed JSON
CarriesCode(text, code) ==
    \/ Contains(text, << "\"code\":", ToString(code) >>)
    \/ Contains(text, << "\"", "code", "\"", ": ", ToString(code) >>)

\* C1: every tool invocation, whatever the tool name, the arguments and the
\* outcome of the external call, ends with exactly one result of the shape
\* {content: [{type: 'text', text}], isError?} returned by the request
\* handler, and no exception leaves the request handler; before the handler
\* has ended there is no result.
C1_ExactlyOneResult ==
    \A i \in Requests :
        /\ escaped[i] = << >>
        /\ Finished(i) => Len(returned[i]) = 1 /\ IsPresentedText(returned[i][1])
        /\ ~Finished(i) => returned[i] = << >>

\* a getObjectFullPath invocation of the handler without try/catch whose
\* request failed has ended with an error result
C1_Witness ==
    \E i \in Requests :
        /\ variant = "rest" /\ name[i] = "getObjectFullPath"
        /\ fetched[i].kind = "failure"
        /\ ~handed[i].ok
        /\ Finished(i)
        /\ Len(returned[i]) = 1 /\ returned[i][1].isError

\* C2: an invocation of an object or class tool whose required argument is
\* missing or empty makes no external call at all, and its result carries
\* the InvalidParams code.
C2_MissingArgumentRejectedFirst ==
    \A i \in Requests :
        ( /\ pc[i] # "idle"
          /\ name[i] \in ObjectTools \cup ClassTools
          /\ Missing(arguments[i], RequiredArg(variant, name[i])) )
        => /\ calls[i] = << >>
           /\ Finished(i) => CarriesCode(TextOf(returned[i][1]), InvalidParams)

\* the value the request handler gave to serializeResult was cloned and
\* rendered (it is a mapping or a sequence the clone does not fail on)
Rendered(i) ==
    /\ Finished(i)
    /\ handed[i].ok
    /\ handed[i].v.k \in {"object", "array"}
    /\ ~StringifyThrows(handed[i].v)

\* the field names that must not be presented
BlockedKeys ==
    {"links", "etag", "annex", "changed_by", "created_by", "changed_at", "parent_uri"}

RECURSIVE HasBlackKey(_)
\* v has a block-listed key at some depth
HasBlackKey(v) ==
    CASE v.k = "object" ->
            \/ DOMAIN v.m \cap BlockedKeys # {}
            \/ \E key \in DOMAIN v.m : HasBlackKey(v.m[key])
      [] v.k = "array" -> \E j \in 1..Len(v.a) : HasBlackKey(v.a[j])
      [] OTHER -> FALSE

RECURSIVE Defined(_)
\* no property and no entry of v is undefined
Defined(v) ==
    CASE v.k = "undefined" -> FALSE
      [] v.k = "object" -> \A key \in DOMAIN v.m : Defined(v.m[key])
      [] v.k = "array" -> \A j \in 1..Len(v.a) : Defined(v.a[j])
      [] OTHER -> TRUE

RECURSIVE KeptIn(_, _, _)
\* every key of v outside the block-list is a key of c, with its value:
\* the value itself (normalised = FALSE), or the value with a big integer
\* replaced by its decimal string (normalised = TRUE); values are compared
\* below block-listed keys removed
KeptIn(v, c, normalised) ==
    CASE v.k = "object" ->
            /\ c.k = "object"
            /\ DOMAIN c.m = DOMAIN v.m \ BlockedKeys
            /\ \A key \in DOMAIN c.m : KeptIn(v.m[key], c.m[key], normalised)
      [] v.k = "array" ->
            /\ c.k = "array"
            /\ Len(c.a) = Len(v.a)
            /\ \A j \in 1..Len(v.a) : KeptIn(v.a[j], c.a[j], normalised)
      [] v.k = "bigint" /\ normalised -> c = Str(<< ToString(v.b) >>)
      [] OTHER -> c = v

\* C3 (as amended): for every mapping or sequence (of mappings, sequences,
\* strings, numbers, booleans, null and big integers) given to
\* serializeResult, the cleaned value has no block-listed key at any depth,
\* and every other key is kept, its value cleaned in the same way and a big
\* integer replaced by its decimal string.
C3_RedactionKeepsOtherKeys ==
    \A i \in Requests :
        Rendered(i) /\ Defined(handed[i].v) =>
            /\ ~HasBlackKey(Clean(handed[i].v))
            /\ KeptIn(handed[i].v, Clean(handed[i].v), TRUE)

\* C3 (as claimed): every key outside the block-list is kept with its value
\* unchanged.
C3_KeptWithItsValue ==
    \A i \in Requests :
        Rendered(i) /\ Defined(handed[i].v) =>
            /\ ~HasBlackKey(Clean(handed[i].v))
            /\ KeptIn(handed[i].v, Clean(handed[i].v), FALSE)

\* a value with a block-listed key two levels down, inside a sequence,
\* next to a key that is kept, has been rendered
C3_Witness ==
    \E i \in Requests :
        /\ Rendered(i)
        /\ handed[i].v.k = "object"
        /\ "items" \in DOMAIN handed[i].v.m
        /\ handed[i].v.m["items"].k = "array"
        /\ DOMAIN handed[i].v.m["items"].a[1].m = {"name", "links"}
        /\ DOMAIN Clean(handed[i].v).m["items"].a[1].m = {"name"}

\* the position of the first line break of text, 0 when it has none
FirstBreak(text) ==
    IF \E j \in 1..Len(text) : text[j] = "\n"
    THEN CHOOSE j \in 1..Len(text) :
            /\ text[j] = "\n"
            /\ \A x \in 1..(j - 1) : text[x] # "\n"
    ELSE 0

RECURSIVE SplitLines(_)
\* text.split('\n')
SplitLines(text) ==
    IF FirstBreak(text) = 0 THEN << text >>
    ELSE << SubSeq(text, 1, FirstBreak(text) - 1) >>
         \o SplitLines(SubSeq(text, FirstBreak(text) + 1, Len(text)))

\* a sequence was rendered none of whose first SliceLimit entries is null
RenderedList(i) ==
    /\ Rendered(i)
    /\ handed[i].v.k = "array"
    /\ \A j \in 1..Len(handed[i].v.a) :
            j <= SliceLimit => handed[i].v.a[j].k \notin {"null", "undefined"}

SummaryLine(n) == << "...and ", ToString(n - SliceLimit), " more objects." >>

\* C4 (as amended): a sequence of N > 50 entries whose first 50 are not
\* null is rendered as 50 item lines, one per entry of the first 50 in input
\* order, then one empty line, then the one summary line
\* '...and {N-50} more objects.'; for 1 <= N <= 50 entries, none null, it
\* is rendered as exactly N item lines and no summary line.
C4_FiftyLinesThenSummary ==
    \A i \in Requests :
        RenderedList(i) /\ Len(handed[i].v.a) >= 1 =>
            LET n == Len(handed[i].v.a)
                clean == Clean(handed[i].v).a
                lines == SplitLines(TextOf(returned[i][1]))
            IN  /\ ~returned[i][1].isError
                /\ n <= SliceLimit =>
                        /\ Len(lines) = n
                        /\ \A j \in 1..n : lines[j] = ItemLine(clean[j])
                /\ n > SliceLimit =>
                        /\ Len(lines) = SliceLimit + 2
                        /\ \A j \in 1..SliceLimit : lines[j] = ItemLine(clean[j])
                        /\ lines[SliceLimit + 1] = << >>
                        /\ lines[SliceLimit + 2] = SummaryLine(n)

\* C4 (as claimed): for every sequence of N > 50 entries the text is exactly
\* 50 item lines followed by exactly one summary line; for 1 <= N <= 50
\* exactly N item lines.
C4_AsClaimed ==
    \A i \in Requests :
        ( /\ Finished(i) /\ handed[i].ok
          /\ handed[i].v.k = "array" /\ ~StringifyThrows(handed[i].v)
          /\ Len(handed[i].v.a) >= 1 ) =>
            LET n == Len(handed[i].v.a)
                lines == SplitLines(TextOf(returned[i][1]))
            IN  /\ n <= SliceLimit => Len(lines) = n
                /\ n > SliceLimit =>
                        /\ Len(lines) = SliceLimit + 1
                        /\ lines[SliceLimit + 1] = SummaryLine(n)

\* a sequence of more than 50 entries has been rendered
C4_Witness ==
    \E i \in Requests :
        /\ RenderedList(i)
        /\ Len(handed[i].v.a) = SliceLimit + 2
        /\ Len(SplitLines(TextOf(returned[i][1]))) = SliceLimit + 2

\* C5: handleError turns a thrown McpError into the error result
\* {error: <its message>, code: <its code>} and every other thrown value (an
\* Error, a value that is no Error) into exactly
\* {error: 'Internal server error', code: InternalError}, in which no part
\* of the thrown value's message shows.
C5_ErrorProjection ==
    \A i \in Requests :
        Finished(i) /\ handed[i].e.cls # "none" =>
            LET e == handed[i].e
                r == returned[i][1]
            IN  /\ r.isError
                /\ e.cls = "McpError" =>
                      TextOf(r) = << "{", "\"error\":", "\"" >> \o e.message
                                  \o << "\"", ",", "\"code\":", ToString(e.code), "}" >>
                /\ e.cls # "McpError" =>
                      /\ TextOf(r) = << "{", "\"error\":", "\"", "Internal server error",
                                        "\"", ",", "\"code\":", "-32603", "}" >>
                      /\ \A j \in 1..Len(e.message) : ~Contains(TextOf(r), << e.message[j] >>)

\* a thrown value that is no Error, carrying a message, reached handleError
C5_Witness ==
    \E i \in Requests :
        /\ Finished(i)
        /\ handed[i].e.cls = "NonError"
        /\ handed[i].e.message # << >>
        /\ returned[i][1].isError

\* C6 (as claimed): when the awaited external call of an object or class
\* tool invocation fails, the invocation's result is an error result that
\* carries the InternalError code and whose text contains the message of the
\* upstream failure.
C6_UpstreamFailureReported ==
    \A i \in Requests :
        ( /\ Finished(i)
          /\ name[i] \in ObjectTools \cup ClassTools
          /\ fetched[i].kind = "failure" ) =>
            /\ returned[i][1].isError
            /\ CarriesCode(TextOf(returned[i][1]), InternalError)
            /\ Contains(TextOf(returned[i][1]), fetched[i].e.message)

RECURSIVE ReachesCycle(_)
\* the redacting clone meets a reference cycle in v: one that is not below
\* a block-listed key
ReachesCycle(v) ==
    CASE v.k = "cyclic" -> TRUE
      [] v.k = "object" -> \E key \in DOMAIN v.m \ BlockedKeys : ReachesCycle(v.m[key])
      [] v.k = "array" -> \E j \in 1..Len(v.a) : ReachesCycle(v.a[j])
      [] OTHER -> FALSE

\* v is a sequence with a null (or undefined) entry among its first 50
NullAmongFirst(v) ==
    /\ v.k = "array"
    /\ \E j \in 1..Len(v.a) : j <= 50 /\ v.a[j].k \in {"null", "undefined"}

\* C7: when a step of serializeResult raises (the clone meets a cycle, or
\* the name of a null entry is read), the request handler still returns one
\* result, which has isError: true and the text 'Error: ' followed by the
\* error's message, and nothing is thrown to the caller.
C7_RaisesAreCaught ==
    \A i \in Requests :
        ( /\ Finished(i) /\ handed[i].ok
          /\ ReachesCycle(handed[i].v) \/ NullAmongFirst(handed[i].v) ) =>
            /\ escaped[i] = << >>
            /\ Len(returned[i]) = 1
            /\ returned[i][1].isError
            /\ TextOf(returned[i][1]) =
                 << "Error: " >> \o (IF ReachesCycle(handed[i].v)
                                     THEN << "Converting circular structure to JSON" >>
                                     ELSE << "Cannot read properties of null (reading 'name')" >>)

\* a sequence of more than 50 entries whose 50th entry is null was given to
\* serializeResult, and the result is an error result
C7_Witness ==
    \E i \in Requests :
        /\ Finished(i) /\ handed[i].ok
        /\ handed[i].v.k = "array"
        /\ Len(handed[i].v.a) > 50
        /\ handed[i].v.a[50].k = "null"
        /\ returned[i][1].isError

\* C8 (as claimed): whatever the interleaving of concurrent invocations,
\* the result of an invocation is delivered on the transport of the client
\* request that issued it.
C8_DeliveredToOwnRequest ==
    \A i \in Requests : pc[i] \in {"done", "closed"} => sentOn[i] = i

\* the candidates that are keys of data, by their position in the order
PresentCandidates(data) ==
    IF data.k # "object" THEN {}
    ELSE {j \in 1..Len(RootCandidates) : RootCandidates[j] \in DOMAIN data.m}

\* the candidates whose value in data is neither missing, null nor empty
TruthyCandidates(data) ==
    {j \in PresentCandidates(data) : Truthy(data.m[RootCandidates[j]])}

Least(S) == CHOOSE j \in S : \A x \in S : j <= x

\* the value under the keys of path, one below the other; undefined when a
\* key is missing on the way
RECURSIVE Below(_, _)
Below(v, path) ==
    IF path = << >> THEN v
    ELSE IF v.k = "object" /\ Head(path) \in DOMAIN v.m
    THEN Below(v.m[Head(path)], Tail(path))
    ELSE Undef

\* the path text made of the name and the package name that root holds
PathFrom(root) ==
    LET package == Below(root, << "adtcore:packageRef", "_attributes", "adtcore:name" >>)
        object == Below(root, << "_attributes", "adtcore:name" >>)
    IN  (IF package.k = "string" /\ package.s # << >> THEN package.s ELSE << "TMP" >>)
        \o << " > " >>
        \o (IF object.k = "string" THEN object.s ELSE << "undefined" >>)

\* the REST getObjectFullPath invocation i got a response whose data is data
PathResolved(i, data) ==
    /\ variant = "rest" /\ name[i] = "getObjectFullPath"
    /\ Finished(i)
    /\ fetched[i].kind = "value"
    /\ fetched[i].v = data

TableOnly ==
    Map([x \in {"table:abapTable"} |->
            Map([y \in {"_attributes"} |->
                    Map([z \in {"adtcore:name"} |-> Str(<< "ZTAB" >>)])])])

\* C10: for a response, a string or a mapping, in which no root candidate
\* is present, or whose resolved root holds no package reference name, the
\* path transformer does not raise and its path begins with the fallback
\* package 'TMP' followed by ' > '; the mapping with only a table root named
\* ZTAB gives 'TMP > ZTAB'.
C10_FallbackPackage ==
    \A i \in Requests :
        ( /\ PathResolved(i, fetched[i].v)
          /\ fetched[i].v.k \in {"string", "object"}
          /\ \/ PresentCandidates(fetched[i].v) = {}
             \/ TruthyCandidates(fetched[i].v) = {}
             \/ Below(fetched[i].v.m[RootCandidates[Least(TruthyCandidates(fetched[i].v))]],
                      << "adtcore:packageRef", "_attributes", "adtcore:name" >>).k = "undefined" ) =>
            /\ handed[i].ok
            /\ escaped[i] = << >>
            /\ SubSeq(handed[i].v.m["path"].s, 1, 2) = << "TMP", " > " >>
            /\ fetched[i].v = TableOnly => handed[i].v.m["path"].s = << "TMP", " > ", "ZTAB" >>

\* the response with only the table root ZTAB was resolved
C10_Witness ==
    \E i \in Requests :
        /\ PathResolved(i, TableOnly)
        /\ handed[i].ok
        /\ handed[i].v.m["path"].s = << "TMP", " > ", "ZTAB" >>

RECURSIVE NothingNull(_)
\* no value inside v is null or undefined: whatever is not there is missing
NothingNull(v) ==
    CASE v.k \in {"undefined", "null"} -> FALSE
      [] v.k = "object" -> \A key \in DOMAIN v.m : NothingNull(v.m[key])
      [] v.k = "array" -> \A j \in 1..Len(v.a) : NothingNull(v.a[j])
      [] OTHER -> TRUE

\* the tools whose handler is a transformer of C11
TransformerTools ==
    {"getObjects", "getObjectFullPath", "getObjectVersionHistory", "getPackageObjects"}

\* C11 (as claimed): in the text presented for a search, path, version
\* history or package invocation whose response holds no null and no
\* undefined value, the literal text 'undefined' or 'null' never appears: a
\* field that is missing from the response is rendered as the empty string
\* or omitted.
C11_NoUndefinedLiteral ==
    \A i \in Requests :
        ( /\ Finished(i)
          /\ name[i] \in TransformerTools
          /\ fetched[i].kind = "value"
          /\ NothingNull(fetched[i].v)
          /\ handed[i].ok ) =>
            /\ ~Contains(TextOf(returned[i][1]), << "undefined" >>)
            /\ ~Contains(TextOf(returned[i][1]), << "null" >>)

\* a string that is not empty was given to serializeResult
StringRendered(i) ==
    /\ Finished(i)
    /\ handed[i].ok
    /\ handed[i].v.k = "string"
    /\ handed[i].v.s # << >>

\* text begins with an XML declaration or holds the ADT namespace prefix
HasAdtMarkup(text) ==
    \/ text # << >> /\ text[1] = "<?xml"
    \/ \E j \in 1..Len(text) : text[j] = "<adt:"

\* text begins with an XML declaration or holds an opening tag of any name
HasAnyMarkup(text) ==
    \/ text # << >> /\ text[1] = "<?xml"
    \/ \E j \in 1..(Len(text) - 1) :
            /\ text[j] \in {"<adt:", "<b"}
            /\ \E c \in (j + 1)..Len(text) : text[c] = ">"

\* C12 (as amended): for every non-empty string given to serializeResult,
\* the markup is stripped if and only if the trimmed string begins with
\* '<?xml' or contains the ADT namespace prefix '<adt:'; in every other
\* case, a string with other tags included, the text is the trimmed input
\* unchanged.
C12_StrippedIffAdtMarkup ==
    \A i \in Requests :
        StringRendered(i) =>
            LET trimmed == Trim(handed[i].v.s)
                text == TextOf(returned[i][1])
            IN  /\ ~returned[i][1].isError
                /\ HasAdtMarkup(trimmed) =>
                     /\ text # trimmed
                     /\ \A j \in 1..Len(text) : text[j] \notin {"<", "<?xml", "<adt:", "<b"}
                /\ ~HasAdtMarkup(trimmed) => text = trimmed

\* C12 (as claimed): the markup is stripped if and only if the trimmed
\* string begins with an XML declaration or contains an opening tag of any
\* tag name or namespace.
C12_StrippedIffAnyTag ==
    \A i \in Requests :
        StringRendered(i) =>
            LET trimmed == Trim(handed[i].v.s)
                text == TextOf(returned[i][1])
            IN  /\ HasAnyMarkup(trimmed) => text # trimmed
                /\ ~HasAnyMarkup(trimmed) => text = trimmed

\* a string that holds '<adt:' without beginning with an XML declaration
\* was stripped of its tag
C12_Witness ==
    \E i \in Requests :
        /\ StringRendered(i)
        /\ handed[i].v.s = << "see", "<adt:", "link", ">", "here", "\n" >>
        /\ TextOf(returned[i][1]) = << "see", "here" >>

\* position j of s is inside markup: at or after a '<' with no '>' between
\* them; with closedOnly, only when a '>' closes that '<'
InMarkup(s, j, closedOnly) ==
    \E p \in 1..j :
        /\ s[p] \in {"<", "<?xml", "<adt:", "<b"}
        /\ \A q \in (p + 1)..(j - 1) : s[q] # ">"
        /\ closedOnly => \E c \in (p + 1)..Len(s) : c >= j /\ s[c] = ">"

RECURSIVE Outside(_, _, _)
\* s from position j on, without the positions inside markup
Outside(s, j, closedOnly) ==
    IF j > Len(s) THEN << >>
    ELSE (IF InMarkup(s, j, closedOnly) THEN << >> ELSE << s[j] >>)
         \o Outside(s, j + 1, closedOnly)

\* a string beginning with an XML declaration was given to serializeResult
XmlRendered(i) ==
    /\ StringRendered(i)
    /\ Trim(handed[i].v.s) # << >>
    /\ Trim(handed[i].v.s)[1] = "<?xml"

\* C13 (as amended): for every string beginning with an XML declaration the
\* returned text holds no '<' at all, hence no tag span, and what is
\* removed from the trimmed input is every '<...>' span and everything from
\* an unclosed '<' to the end of the text (plus surrounding whitespace);
\* all other text is preserved in order.
C13_TagsAndUnclosedTailRemoved ==
    \A i \in Requests :
        XmlRendered(i) =>
            /\ \A j \in 1..Len(TextOf(returned[i][1])) :
                    TextOf(returned[i][1])[j] \notin {"<", "<?xml", "<adt:", "<b"}
            /\ TextOf(returned[i][1]) = Trim(Outside(Trim(handed[i].v.s), 1, FALSE))

\* C13 (as claimed): the only text removed is the text inside properly
\* closed '<...>' spans; text that follows an unclosed '<' is preserved.
C13_OnlyClosedSpansRemoved ==
    \A i \in Requests :
        XmlRendered(i) =>
            TextOf(returned[i][1]) = Trim(Outside(Trim(handed[i].v.s), 1, TRUE))

\* an XML document with two tags, text and an unclosed '<' was stripped:
\* the text between the tags is kept, the tail after the '<' is gone
C13_Witness ==
    \E i \in Requests :
        /\ XmlRendered(i)
        /\ Contains(handed[i].v.s, << "<", "tail" >>)
        /\ TextOf(returned[i][1]) = << "text" >>

\* C14: for every sequence with 0 entries given to serializeResult the
\* returned text is exactly 'Empty list' and isError is not set; a sequence
\* with entries, redacted or not, is never rendered as 'Empty list'.
C14_EmptyList ==
    \A i \in Requests :
        Finished(i) /\ handed[i].ok /\ handed[i].v.k = "array" =>
            /\ Len(handed[i].v.a) = 0 =>
                 /\ TextOf(returned[i][1]) = << "Empty list" >>
                 /\ ~returned[i][1].isError
            /\ Len(handed[i].v.a) > 0 => TextOf(returned[i][1]) # << "Empty list" >>

\* a sequence with 0 entries was given to serializeResult by a handler that
\* got it from its awaited call
C14_Witness ==
    \E i \in Requests :
        /\ Finished(i) /\ handed[i].ok
        /\ fetched[i].kind = "value"
        /\ handed[i].v.k = "array" /\ Len(handed[i].v.a) = 0
        /\ TextOf(returned[i][1]) = << "Empty list" >>

\* C15 (as claimed): serializeResult returns 'No data returned from SAP'
\* without isError exactly when its input is null, undefined or the empty
\* string; the values 0 and false, an empty mapping and an empty sequence
\* are never reported as 'no data'.
C15_NoDataExactlyWhenAbsent ==
    \A i \in Requests :
        Finished(i) /\ handed[i].ok =>
            ( ( /\ TextOf(returned[i][1]) = << "No data returned from SAP" >>
                /\ ~returned[i][1].isError )
              <=> ( \/ handed[i].v.k \in {"undefined", "null"}
                    \/ handed[i].v.k = "string" /\ handed[i].v.s = << >> ) )

\* the search invocation i of the client-library handler got v from
\* searchObject
Searched(i, v) ==
    /\ variant = "client" /\ name[i] = "getObjects"
    /\ Finished(i)
    /\ fetched[i].kind = "value"
    /\ fetched[i].v = v

HitFields == {"adtcore:name", "name", "adtcore:type", "type", "adtcore:uri", "uri",
              "adtcore:description"}

\* v is a sequence of at least one hit, each a mapping whose fields are strings
IsHits(v) ==
    /\ v.k = "array" /\ Len(v.a) >= 1
    /\ \A j \in 1..Len(v.a) :
            /\ v.a[j].k = "object"
            /\ \A key \in DOMAIN v.a[j].m \cap HitFields : v.a[j].m[key].k = "string"

\* the field of a hit: under the namespaced key when that key is there
\* (and, with nonEmpty, holds a non-empty value), under the plain key
\* otherwise; 'undefined' when it is under neither
Field(hit, namespaced, plain, nonEmpty) ==
    IF namespaced \in DOMAIN hit.m /\ (nonEmpty => hit.m[namespaced].s # << >>)
    THEN hit.m[namespaced].s
    ELSE IF plain \in DOMAIN hit.m THEN hit.m[plain].s
    ELSE << "undefined" >>

\* the two lines shown for a hit
FirstLine(hit, nonEmpty) ==
    << "- " >> \o Field(hit, "adtcore:name", "name", nonEmpty)
    \o << " (" >> \o Field(hit, "adtcore:type", "type", nonEmpty) \o << ") " >>
    \o (IF "adtcore:description" \in DOMAIN hit.m
        THEN hit.m["adtcore:description"].s ELSE << >>)

SecondLine(hit, nonEmpty) ==
    << "  URL: " >> \o Field(hit, "adtcore:uri", "uri", nonEmpty)

\* text shows the hits of v, two lines per hit, in the order of v
ShowsHits(text, v, nonEmpty) ==
    /\ Len(SplitLines(text)) = 2 * Len(v.a)
    /\ \A j \in 1..Len(v.a) :
            /\ SplitLines(text)[2 * j - 1] = FirstLine(v.a[j], nonEmpty)
            /\ SplitLines(text)[2 * j] = SecondLine(v.a[j], nonEmpty)

\* C16 (as amended): the search transformer returns 'No objects found.'
\* when the hit sequence is absent or has 0 entries; for a sequence of hits
\* it returns exactly one entry per hit, in input order, each with name,
\* type and uri read from the namespaced key when that key holds a
\* non-empty value and from the plain key otherwise, shown as the name, the
\* type in parentheses and, on a second line, the uri after 'URL: '; it never
\* returns the marker for a sequence with entries.
C16_SearchEntries ==
    \A i \in Requests :
        Searched(i, fetched[i].v) =>
            LET v == fetched[i].v
            IN  /\ ( \/ v.k \in {"undefined", "null"}
                     \/ v.k = "array" /\ Len(v.a) = 0 )
                   => handed[i] = Returned(Str(<< "No objects found." >>))
                /\ IsHits(v) =>
                     /\ handed[i].ok
                     /\ handed[i].v.k = "string"
                     /\ handed[i].v.s # << "No objects found." >>
                     /\ ShowsHits(handed[i].v.s, v, TRUE)

\* C16 (as claimed): name, type and uri are read from the namespaced key
\* whenever that key is present.
C16_NamespacedWhenPresent ==
    \A i \in Requests :
        ( /\ Searched(i, fetched[i].v)
          /\ IsHits(fetched[i].v)
          /\ \A j \in 1..Len(fetched[i].v.a) :
                /\ {"adtcore:name", "name"} \cap DOMAIN fetched[i].v.a[j].m # {}
                /\ {"adtcore:type", "type"} \cap DOMAIN fetched[i].v.a[j].m # {}
                /\ {"adtcore:uri", "uri"} \cap DOMAIN fetched[i].v.a[j].m # {} ) =>
            /\ handed[i].ok
            /\ ShowsHits(handed[i].v.s, fetched[i].v, FALSE)

\* two hits were transformed, the second with both a plain and a
\* namespaced name
C16_Witness ==
    \E i \in Requests :
        /\ Searched(i, fetched[i].v)
        /\ IsHits(fetched[i].v)
        /\ Len(fetched[i].v.a) = 2
        /\ {"adtcore:name", "name"} \subseteq DOMAIN fetched[i].v.a[2].m
        /\ SplitLines(handed[i].v.s)[3] = << "- ", "ZNAMESPACED", " (", "PROG/P", ") " >>
        /\ SplitLines(handed[i].v.s)[4] = << "  URL: ", "/sap/bc/adt/programs/z" >>

\* C17: for every mapping or sequence given to serializeResult, the
\* redacting clone applied to its own output gives that output again:
\* redact(redact(v)) = redact(v).
C17_RedactionIdempotent ==
    \A i \in Requests :
        Rendered(i) => Clean(Clean(handed[i].v)) = Clean(handed[i].v)

\* a value that the clone changes (a block-listed key below a sequence
\* entry, next to a big integer) has been cleaned
C17_Witness ==
    \E i \in Requests :
        /\ Rendered(i)
        /\ handed[i].v.k = "array"
        /\ Len(handed[i].v.a) = 1
        /\ handed[i].v.a[1].k = "object"
        /\ DOMAIN handed[i].v.a[1].m = {"name", "links"}
        /\ handed[i].v.a[1].m["name"].k = "bigint"
        /\ Clean(handed[i].v) # handed[i].v
        /\ Clean(Clean(handed[i].v)) = Clean(handed[i].v)

\* C18 (as claimed): in the client-library variant every finished
\* invocation of an object or class tool has recorded exactly one outcome
\* with trackRequest: true when it returned a result, false when it threw.
C18_TrackedExactlyOnce ==
    \A i \in Requests :
        ( /\ variant = "client"
          /\ name[i] \in ObjectTools \cup ClassTools
          /\ Finished(i)
          /\ Len(calls[i]) >= 2 ) =>
            tracked[i] = << handed[i].ok >>

====
